---- MODULE Spec2Model ----
(***************************************************************************)
(* A model of app/main.py of the Cold-Mail-Generator: the Portfolio store  *)
(* (ChromaDB initialisation with bounded cache-clear-and-retry, seeding,   *)
(* querying) and the Streamlit submission pipeline.                        *)
(*                                                                         *)
(* Streamlit runs the script from top to bottom once per user interaction, *)
(* inside one server process: every run builds a new Portfolio (and so     *)
(* calls _initialize_chroma again), and st.button is True only in the run  *)
(* that the click started.  The in-memory ChromaDB system of a process and *)
(* the persistent directory ./chroma_db both outlive a run.                *)
(*                                                                         *)
(* Calls into libraries (chromadb, pandas, the page loader, the LLM chain) *)
(* either return or raise an exception with some message.                  *)
(***************************************************************************)
EXTENDS Integers, Sequences, FiniteSets, TLC

\* ------------------------------------------------------------- bounds
MaxRows == 2        \* rows of the portfolio CSV: 0..MaxRows
MaxJobs == 2        \* jobs returned by llm.extract_jobs: 0..MaxJobs
MaxRuns == 2        \* script runs (user interactions) per process

\* -------------------------------------------------- program constants
max_retries == 3
n_results == 2

Procs == {1, 2}
Disk == 0                       \* the collection under ./chroma_db
Stores == {Disk} \cup Procs     \* p: the in-memory system of process p

\* ------------------------------------------------- exception messages
Upper == <<"A","B","C","D","E","F","G","H","I","J","K","L","M",
           "N","O","P","Q","R","S","T","U","V","W","X","Y","Z">>
Lower == <<"a","b","c","d","e","f","g","h","i","j","k","l","m",
           "n","o","p","q","r","s","t","u","v","w","x","y","z">>

\* str.lower(), one character
lower_char(c) ==
  IF \E i \in 1..26 : Upper[i] = c
  THEN Lower[CHOOSE i \in 1..26 : Upper[i] = c]
  ELSE c

\* str.lower()
lower(s) == [i \in 1..Len(s) |-> lower_char(s[i])]

\* the `in` operator of two strings
Contains(sub, s) ==
  \E i \in 0..(Len(s) - Len(sub)) : SubSeq(s, i + 1, i + Len(sub)) = sub

S_onnx == <<"o","n","n","x">>
S_protobuf == <<"p","r","o","t","o","b","u","f">>
S_model == <<"m","o","d","e","l">>

\* no exception: the call returned
Ok == <<>>
\* str(e) of the exceptions a library call may raise
Msgs == { <<"O","N","N","X">>,
          <<"n","o"," ","p","r","o","t","o","b","u","f">>,
          <<"M","o","d","e","l"," ","x">>,
          <<"t","i","m","e","o","u","t">> }
Outcomes == {Ok} \cup Msgs

\* variant: every error is taken for a model-loading error
is_model_error_any(e) == TRUE

\* the classifier of _initialize_chroma's except clause
is_model_error(e) ==
  LET error_msg == lower(e) IN
  \/ Contains(S_onnx, error_msg)
  \/ Contains(S_protobuf, error_msg)
  \/ Contains(S_model, error_msg)

\* variant: the tip uses the classifier of _initialize_chroma
shows_tip_like_init(e) == is_model_error(e)

\* the condition of the st.info tip in create_streamlit_app's except clause
shows_tip(e) ==
  Contains(S_onnx, lower(e)) \/ Contains(S_protobuf, lower(e))

\* ---------------------------------------------------------- the state
CachePaths == {"~/.cache/chroma", "/root/.cache/chroma", "./chroma_cache"}

SkillLists == { <<>>, <<"Python">>, <<"Python", "React">> }

VARIABLES
  pc,            \* pc[p]: where process p's script run is
  left,          \* left[p]: script runs process p has still to make
  nrows,         \* rows of the CSV file (fixed)
  cache,         \* the cache directories that exist
  store,         \* store[s]: the entries of collection "portfolio" in s
  nextId,        \* the identifiers uuid4 has handed out
  seedReturned,  \* seedReturned[s]: a load_portfolio on s has returned normally
  attempt,       \* attempt[p]: _initialize_chroma's loop variable
  clears,        \* clears[p]: clear_chroma_cache calls of this initialisation
  initErr,       \* initErr[p]: the exception last caught by _initialize_chroma
  chroma_client, \* self.chroma_client
  collection,    \* self.collection
  seedObs,       \* the branch this run's load_portfolio took
  rowIdx,        \* the row load_portfolio's loop is at
  jobs,          \* jobs[p]: the list extract_jobs returned
  jobIdx,        \* the job the for loop is at
  links,         \* links of the current job, from query_links to write_mail
  stages,        \* stages[p]: the stages this run has completed, in order
  emails,        \* st.code outputs of this run
  errors,        \* st.error outputs of this run
  infos,         \* st.info outputs of this run
  runErr         \* the exception create_streamlit_app caught in this run

shared == <<nrows, cache, store, nextId, seedReturned>>
initv == <<attempt, clears, initErr, chroma_client, collection>>
seedv == <<seedObs, rowIdx>>
jobv == <<jobs, jobIdx, links>>
outv == <<emails, errors, infos, runErr>>
vars == <<pc, left, shared, initv, seedv, jobv, stages, outv>>

NoRunErr == [stage |-> "none", msg |-> Ok]

\* the store self.collection refers to
StoreOf(p) == IF collection[p] = "disk" THEN Disk ELSE p

\* collection.count()
Count(s) == Cardinality(store[s])

InitCommon ==
  /\ nrows \in 0..MaxRows
  /\ cache \in SUBSET CachePaths
  /\ store = [s \in Stores |-> {}]
  /\ nextId = 0
  /\ seedReturned = [s \in Stores |-> FALSE]
  /\ attempt = [p \in Procs |-> 0]
  /\ clears = [p \in Procs |-> 0]
  /\ initErr = [p \in Procs |-> Ok]
  /\ chroma_client = [p \in Procs |-> "None"]
  /\ collection = [p \in Procs |-> "None"]
  /\ seedObs = [p \in Procs |-> "none"]
  /\ rowIdx = [p \in Procs |-> 0]
  /\ jobs = [p \in Procs |-> <<>>]
  /\ jobIdx = [p \in Procs |-> 0]
  /\ links = [p \in Procs |-> <<>>]
  /\ stages = [p \in Procs |-> <<>>]
  /\ emails = [p \in Procs |-> 0]
  /\ errors = [p \in Procs |-> 0]
  /\ infos = [p \in Procs |-> 0]
  /\ runErr = [p \in Procs |-> NoRunErr]

\* one server process
Init ==
  /\ InitCommon
  /\ left = [p \in Procs |-> MaxRuns]
  /\ pc = [p \in Procs |-> IF p = 1 THEN "start" ELSE "off"]

\* two server processes started in the same working directory, each of
\* which runs the script once
InitRace ==
  /\ InitCommon
  /\ left = [p \in Procs |-> 1]
  /\ pc = [p \in Procs |-> "start"]

\* ------------------------------------------------------ a script run
\* __main__: a run of the script builds a new Portfolio; __init__ reads the
\* CSV (pd.read_csv raises on a missing or malformed file) and resets the
\* client and the collection before _initialize_chroma
StartRun(p) ==
  /\ pc[p] \in {"start", "done", "csv_failed", "init_failed"}
  /\ left[p] > 0
  /\ left' = [left EXCEPT ![p] = @ - 1]
  /\ \E r \in Outcomes :
       pc' = [pc EXCEPT ![p] = IF r = Ok THEN "init" ELSE "csv_failed"]
  /\ attempt' = [attempt EXCEPT ![p] = 0]
  /\ clears' = [clears EXCEPT ![p] = 0]
  /\ initErr' = [initErr EXCEPT ![p] = Ok]
  /\ chroma_client' = [chroma_client EXCEPT ![p] = "None"]
  /\ collection' = [collection EXCEPT ![p] = "None"]
  /\ seedObs' = [seedObs EXCEPT ![p] = "none"]
  /\ rowIdx' = [rowIdx EXCEPT ![p] = 0]
  /\ jobs' = [jobs EXCEPT ![p] = <<>>]
  /\ jobIdx' = [jobIdx EXCEPT ![p] = 0]
  /\ links' = [links EXCEPT ![p] = <<>>]
  /\ stages' = [stages EXCEPT ![p] = <<>>]
  /\ emails' = [emails EXCEPT ![p] = 0]
  /\ errors' = [errors EXCEPT ![p] = 0]
  /\ infos' = [infos EXCEPT ![p] = 0]
  /\ runErr' = [runErr EXCEPT ![p] = NoRunErr]
  /\ UNCHANGED shared

\* ------------------------------------------------- _initialize_chroma
\* clear_chroma_cache: every existing cache path is removed, unless its
\* shutil.rmtree raises, which is printed and swallowed
clear_chroma_cache(remaining) ==
  /\ remaining \subseteq cache
  /\ cache' = remaining

\* variant: the last attempt is retried too
should_retry_off_by_one(e, a) == is_model_error(e) /\ a < max_retries

\* the except clause: clear the cache and go round the loop again?
should_retry(e, a) == is_model_error(e) /\ a < max_retries - 1

\* the exception that reaches the outer except clause (Ok: none), given
\* whether chromadb.Client() returned and the outcomes of
\* chromadb.PersistentClient() and get_or_create_collection(): a failing
\* Client() is caught by the inner try (its message is dropped), and the
\* fallback's exception is not
CaughtError(clientOk, pcl, g) == IF ~clientOk /\ pcl # Ok THEN pcl ELSE g

\* one iteration of `for attempt in range(max_retries)`
initialize_chroma(p) ==
  /\ pc[p] = "init"
  /\ \E clientOk \in BOOLEAN, pcl \in Outcomes, g \in Outcomes :
       \* calls that are not made have no outcome
       /\ clientOk => pcl = Ok
       /\ pcl # Ok => g = Ok
       /\ LET client == IF clientOk THEN "ephemeral"
                        ELSE IF pcl = Ok THEN "persistent"
                        ELSE chroma_client[p]
              e == CaughtError(clientOk, pcl, g)
          IN
          /\ chroma_client' = [chroma_client EXCEPT ![p] = client]
          /\ IF e = Ok
             THEN \* "ChromaDB initialized successfully"; return
                  /\ collection' = [collection EXCEPT ![p] =
                        IF client = "ephemeral" THEN "mem" ELSE "disk"]
                  /\ pc' = [pc EXCEPT ![p] = "ready"]
                  /\ UNCHANGED <<attempt, clears, initErr, cache>>
             ELSE IF should_retry(e, attempt[p])
             THEN \* clear the cache, sleep, next iteration; a loop that runs
                  \* out of iterations returns
                  /\ \E remaining \in SUBSET cache : clear_chroma_cache(remaining)
                  /\ clears' = [clears EXCEPT ![p] = @ + 1]
                  /\ attempt' = [attempt EXCEPT ![p] = @ + 1]
                  /\ initErr' = [initErr EXCEPT ![p] = e]
                  /\ pc' = [pc EXCEPT ![p] =
                        IF attempt[p] + 1 < max_retries THEN "init" ELSE "ready"]
                  /\ UNCHANGED collection
             ELSE \* raise e: __init__ and __main__ do not catch it
                  /\ initErr' = [initErr EXCEPT ![p] = e]
                  /\ pc' = [pc EXCEPT ![p] = "init_failed"]
                  /\ UNCHANGED <<attempt, clears, collection, cache>>
  /\ UNCHANGED <<left, nrows, store, nextId, seedReturned, seedv, jobv,
                 stages, outv>>

\* ----------------------------------------------- create_streamlit_app
\* the except clause: one st.error, and the st.info tip for a message with
\* "onnx" or "protobuf"; the script run then ends normally
Handle(p, stage, e) ==
  /\ errors' = [errors EXCEPT ![p] = @ + 1]
  /\ infos' = [infos EXCEPT ![p] = @ + (IF shows_tip(e) THEN 1 ELSE 0)]
  /\ runErr' = [runErr EXCEPT ![p] = [stage |-> stage, msg |-> e]]
  /\ pc' = [pc EXCEPT ![p] = "done"]
  /\ UNCHANGED emails

\* a stage has completed
Completed(p, stage, k) ==
  stages' = [stages EXCEPT ![p] = Append(@, <<stage, k>>)]

\* st.button("Submit"): True in the run a click started. The locals of
\* _initialize_chroma are gone once it has returned.
Submit(p) ==
  /\ pc[p] = "ready"
  /\ \E submit_button \in BOOLEAN :
       pc' = [pc EXCEPT ![p] = IF submit_button THEN "fetch" ELSE "done"]
  /\ attempt' = [attempt EXCEPT ![p] = 0]
  /\ clears' = [clears EXCEPT ![p] = 0]
  /\ initErr' = [initErr EXCEPT ![p] = Ok]
  /\ UNCHANGED <<left, shared, chroma_client, collection, seedv, jobv,
                 stages, outv>>

\* loader.load().pop().page_content
Fetch(p) ==
  /\ pc[p] = "fetch"
  /\ \E r \in Outcomes :
       IF r = Ok
       THEN /\ pc' = [pc EXCEPT ![p] = "clean"]
            /\ Completed(p, "fetch", 0)
            /\ UNCHANGED outv
       ELSE /\ Handle(p, "fetch", r)
            /\ UNCHANGED stages
  /\ UNCHANGED <<left, shared, initv, seedv, jobv>>

\* variant: the call of load_portfolio is missing
AfterClean_skips_seed == "extract"

\* the statement after `data = clean_text(...)`: portfolio.load_portfolio()
AfterClean == "seed"

\* clean_text(...)
Clean(p) ==
  /\ pc[p] = "clean"
  /\ \E r \in Outcomes :
       IF r = Ok
       THEN /\ pc' = [pc EXCEPT ![p] = AfterClean]
            /\ Completed(p, "clean", 0)
            /\ UNCHANGED outv
       ELSE /\ Handle(p, "clean", r)
            /\ UNCHANGED stages
  /\ UNCHANGED <<left, shared, initv, seedv, jobv>>

\* ----------------------------------------------------- load_portfolio
\* variant: the same identifier every time
uuid4_not_fresh == nextId * 0

\* str(uuid.uuid4()): an identifier nobody has been given before
uuid4 == nextId

\* variant: a document the collection already holds is not added again
CollectionAdd_dedup_by_document(coll, id, row) ==
  IF \E x \in coll : x.row = row
  THEN coll
  ELSE coll \cup {[id |-> id, row |-> row]}

\* collection.add(documents=[Techstack], metadatas=[{"links": Links}],
\* ids=[id]): an identifier the collection already holds is not added again
CollectionAdd(coll, id, row) ==
  IF \E x \in coll : x.id = id
  THEN coll
  ELSE coll \cup {[id |-> id, row |-> row]}

\* variant: no check of the count
ShouldSeed_always(count) == TRUE

\* variant: a collection of one entry is seeded again
ShouldSeed_below_two(count) == count < 2

\* `if self.collection.count() == 0`
ShouldSeed(count) == count = 0

\* load_portfolio has returned normally
SeedReturns(p) ==
  /\ pc' = [pc EXCEPT ![p] = "extract"]
  /\ Completed(p, "seed", 0)
  /\ UNCHANGED outv

\* load_portfolio up to the loop: the guard on self.collection, then the
\* count() == 0 check; an empty CSV leaves the loop nothing to do, and the
\* client's persist() (where the client has one) may raise
load_portfolio(p) ==
  /\ pc[p] = "seed"
  /\ IF collection[p] = "None"
     THEN \* "ChromaDB collection not initialized"
          /\ seedObs' = [seedObs EXCEPT ![p] = "unavailable"]
          /\ SeedReturns(p)
          /\ UNCHANGED <<rowIdx, seedReturned>>
     ELSE \E r \in Outcomes, pr \in Outcomes :
          IF r # Ok
          THEN /\ Handle(p, "seed", r)
               /\ UNCHANGED <<seedv, seedReturned, stages>>
          ELSE IF ~ShouldSeed(Count(StoreOf(p)))
          THEN /\ seedObs' = [seedObs EXCEPT ![p] = "nonempty"]
               /\ seedReturned' = [seedReturned EXCEPT ![StoreOf(p)] = TRUE]
               /\ SeedReturns(p)
               /\ UNCHANGED rowIdx
          ELSE IF nrows > 0
          THEN /\ seedObs' = [seedObs EXCEPT ![p] = "empty"]
               /\ rowIdx' = [rowIdx EXCEPT ![p] = 1]
               /\ pc' = [pc EXCEPT ![p] = "seed_add"]
               /\ UNCHANGED <<seedReturned, stages, outv>>
          ELSE /\ seedObs' = [seedObs EXCEPT ![p] = "empty"]
               /\ UNCHANGED rowIdx
               /\ IF pr = Ok
                  THEN /\ seedReturned' =
                            [seedReturned EXCEPT ![StoreOf(p)] = TRUE]
                       /\ SeedReturns(p)
                  ELSE /\ Handle(p, "seed", pr)
                       /\ UNCHANGED <<seedReturned, stages>>
  /\ UNCHANGED <<left, nrows, cache, store, nextId, initv, jobv>>

\* one iteration of `for _, row in self.data.iterrows()`: collection.add of
\* the row under a new identifier; after the last row, persist()
load_portfolio_add(p) ==
  /\ pc[p] = "seed_add"
  /\ \E r \in Outcomes, pr \in Outcomes :
       IF r # Ok
       THEN /\ Handle(p, "seed", r)
            /\ UNCHANGED <<store, nextId, rowIdx, seedReturned, stages>>
       ELSE /\ store' = [store EXCEPT ![StoreOf(p)] =
                             CollectionAdd(@, uuid4, rowIdx[p])]
            /\ nextId' = nextId + 1
            /\ IF rowIdx[p] < nrows
               THEN /\ rowIdx' = [rowIdx EXCEPT ![p] = @ + 1]
                    /\ UNCHANGED <<pc, seedReturned, stages, outv>>
               ELSE /\ UNCHANGED rowIdx
                    /\ IF pr = Ok
                       THEN /\ seedReturned' =
                                 [seedReturned EXCEPT ![StoreOf(p)] = TRUE]
                            /\ SeedReturns(p)
                       ELSE /\ Handle(p, "seed", pr)
                            /\ UNCHANGED <<seedReturned, stages>>
  /\ UNCHANGED <<left, nrows, cache, initv, seedObs, jobv>>

\* -------------------------------------------------------- the job loop
\* the lists llm.extract_jobs may return; a job is its list of skills
JobLists == UNION { [1..n -> SkillLists] : n \in 0..MaxJobs }

\* jobs = llm.extract_jobs(data)
extract_jobs(p) ==
  /\ pc[p] = "extract"
  /\ \E r \in Outcomes :
       IF r # Ok
       THEN /\ Handle(p, "extract", r)
            /\ UNCHANGED <<jobs, jobIdx, stages>>
       ELSE \E js \in JobLists :
            /\ jobs' = [jobs EXCEPT ![p] = js]
            /\ jobIdx' = [jobIdx EXCEPT ![p] = 1]
            /\ pc' = [pc EXCEPT ![p] = IF js = <<>> THEN "done" ELSE "query"]
            /\ Completed(p, "extract", 0)
            /\ UNCHANGED outv
  /\ UNCHANGED <<left, shared, initv, seedv, links>>

\* The distance between a query text and a document is a fixed function of
\* the two texts. The texts are abstract here: "Python" is nearest to the
\* first rows of the CSV and "React" to the last ones; entries of the same
\* row are equally far, and the older one comes first.
Closer(skill, x, y) ==
  IF x.row # y.row
  THEN (IF skill = "Python" THEN x.row < y.row ELSE x.row > y.row)
  ELSE x.id < y.id

\* the entry of coll nearest to the query text
NearestEntry(coll, skill) ==
  CHOOSE x \in coll : \A y \in coll \ {x} : Closer(skill, x, y)

RECURSIVE Nearest(_, _, _)
\* the metadatas collection.query returns for one query text: the links of
\* the n nearest entries, nearest first (all of them when there are fewer)
Nearest(coll, skill, n) ==
  IF n = 0 \/ coll = {}
  THEN <<>>
  ELSE LET x == NearestEntry(coll, skill)
       IN <<x.row>> \o Nearest(coll \ {x}, skill, n - 1)

\* result.get('metadatas', []): one list per query text
QueryResult(coll, skills) ==
  [i \in 1..Len(skills) |-> Nearest(coll, skills[i], n_results)]

\* skills = job.get('skills', []); links = portfolio.query_links(skills)
query_links(p) ==
  /\ pc[p] = "query"
  /\ LET skills == jobs[p][jobIdx[p]] IN
     IF collection[p] = "None"
     THEN \* "ChromaDB collection not initialized"
          /\ links' = [links EXCEPT ![p] = <<>>]
          /\ pc' = [pc EXCEPT ![p] = "draft"]
          /\ Completed(p, "query", jobIdx[p])
          /\ UNCHANGED outv
     ELSE \E r \in Outcomes :
          IF r # Ok
          THEN /\ Handle(p, "query", r)
               /\ UNCHANGED <<links, stages>>
          ELSE /\ links' = [links EXCEPT ![p] =
                              QueryResult(store[StoreOf(p)], skills)]
               /\ pc' = [pc EXCEPT ![p] = "draft"]
               /\ Completed(p, "query", jobIdx[p])
               /\ UNCHANGED outv
  /\ UNCHANGED <<left, shared, initv, seedv, jobs, jobIdx>>

\* email = llm.write_mail(job, links); nothing reads links after this call
write_mail(p) ==
  /\ pc[p] = "draft"
  /\ \E r \in Outcomes :
       IF r # Ok
       THEN /\ Handle(p, "draft", r)
            /\ UNCHANGED stages
       ELSE /\ pc' = [pc EXCEPT ![p] = "emit"]
            /\ Completed(p, "draft", jobIdx[p])
            /\ UNCHANGED outv
  /\ links' = [links EXCEPT ![p] = <<>>]
  /\ UNCHANGED <<left, shared, initv, seedv, jobs, jobIdx>>

\* st.code(email, language='markdown'), and on to the next job
Emit(p) ==
  /\ pc[p] = "emit"
  /\ emails' = [emails EXCEPT ![p] = @ + 1]
  /\ Completed(p, "emit", jobIdx[p])
  /\ jobIdx' = [jobIdx EXCEPT ![p] = @ + 1]
  /\ pc' = [pc EXCEPT ![p] =
        IF jobIdx[p] < Len(jobs[p]) THEN "query" ELSE "done"]
  /\ UNCHANGED <<left, shared, initv, seedv, jobs, links, errors, infos,
                 runErr>>

Next ==
  \E p \in Procs :
    \/ StartRun(p)
    \/ initialize_chroma(p)
    \/ Submit(p)
    \/ Fetch(p)
    \/ Clean(p)
    \/ load_portfolio(p)
    \/ load_portfolio_add(p)
    \/ extract_jobs(p)
    \/ query_links(p)
    \/ write_mail(p)
    \/ Emit(p)

Spec == Init /\ [][Next]_vars

\* the script up to the end of load_portfolio
NextSeed ==
  \E p \in Procs :
    \/ StartRun(p)
    \/ initialize_chroma(p)
    \/ Submit(p)
    \/ Fetch(p)
    \/ Clean(p)
    \/ load_portfolio(p)
    \/ load_portfolio_add(p)

\* two processes, each up to the end of its load_portfolio
SpecRace == InitRace /\ [][NextSeed]_vars

\* ========================================================= the claims
\* load_portfolio has returned normally in this run of process p
Seeded(p) == \E i \in 1..Len(stages[p]) : stages[p][i] = <<"seed", 0>>

\* the message, lower-cased, contains one of the three words
MentionsModel(e) ==
  \/ Contains(<<"o","n","n","x">>, lower(e))
  \/ Contains(<<"p","r","o","t","o","b","u","f">>, lower(e))
  \/ Contains(<<"m","o","d","e","l">>, lower(e))

\* C1: seeding is idempotent. A load_portfolio that finds a non-zero count
\* inserts nothing, and once a load_portfolio on a collection has returned
\* normally, later calls leave the collection as that call left it.
C1_SeedIdempotent ==
  [][\A p \in Procs :
       /\ (pc[p] = "seed" /\ collection[p] # "None"
             /\ Count(StoreOf(p)) # 0)
            => (store' = store /\ pc'[p] # "seed_add")
       /\ \A s \in Stores : seedReturned[s] => store'[s] = store[s]
    ]_vars

\* a second load_portfolio has returned on a fully seeded collection
C1_Witness ==
  \E p \in Procs :
    /\ nrows > 0
    /\ seedObs[p] = "nonempty"
    /\ Seeded(p)
    /\ Count(StoreOf(p)) = nrows

\* C2: at most 3 initialisation attempts; the cache is cleared once after
\* each failed attempt but the last (at most 2 times); only model-loading
\* errors are retried; a model-loading error on the 3rd attempt is raised,
\* so _initialize_chroma never returns without a collection.
C2_BoundedRetry ==
  \A p \in Procs :
    /\ attempt[p] \in 0..2
    /\ clears[p] = attempt[p]
    /\ (pc[p] = "init" /\ attempt[p] > 0) => MentionsModel(initErr[p])
    /\ (pc[p] = "init_failed" /\ MentionsModel(initErr[p])) => attempt[p] = 2
    /\ pc[p] = "ready" => collection[p] # "None"

\* the third attempt has failed with a model-loading error, after two clears
C2_Witness ==
  \E p \in Procs :
    /\ pc[p] = "init_failed"
    /\ MentionsModel(initErr[p])
    /\ attempt[p] = 2
    /\ clears[p] = 2

\* C3: an initialisation failure that is not a model-loading error is raised
\* on the attempt where it occurs: no cache clearing, no further attempt;
\* only a new run of the script initialises again.
C3_OtherErrorsPropagate ==
  [][\A p \in Procs :
       /\ ( /\ pc[p] = "init"
            /\ pc'[p] \in {"init", "init_failed"}
            /\ <<pc[p], attempt[p]>> # <<pc'[p], attempt'[p]>>
            /\ ~MentionsModel(initErr'[p]) )
          => /\ pc'[p] = "init_failed"
             /\ attempt'[p] = attempt[p]
             /\ clears'[p] = clears[p]
             /\ cache' = cache
       /\ (pc[p] = "init_failed" /\ pc'[p] # "init_failed")
          => left'[p] < left[p]
    ]_vars

\* another error was raised on the second attempt
C3_Witness ==
  \E p \in Procs :
    /\ pc[p] = "init_failed"
    /\ ~MentionsModel(initErr[p])
    /\ attempt[p] = 1
    /\ clears[p] = 1

\* initialisation has failed on its last attempt with a model-loading error
InitExhausted(p) ==
  /\ pc[p] # "init"
  /\ collection[p] = "None"
  /\ attempt[p] = max_retries - 1
  /\ MentionsModel(initErr[p])

\* C4: when initialisation has exhausted its retries, the Portfolio is still
\* there for seed() and query(): the run goes on to create_streamlit_app
\* with no collection, no exception comes out of the seed or the query step,
\* and query_links returns an empty list.
C4_UnavailableStoreDegrades ==
  \A p \in Procs :
    /\ InitExhausted(p) => pc[p] # "init_failed"
    /\ (collection[p] = "None" /\ pc[p] = "draft") => links[p] = <<>>
    /\ collection[p] = "None" => runErr[p].stage \notin {"seed", "query"}

\* C5 as stated: a caught exception gives exactly one user-visible message.
C5_OneMessage ==
  \A p \in Procs :
    runErr[p] # NoRunErr =>
      /\ errors[p] + infos[p] = 1
      /\ pc[p] = "done"
      /\ runErr[p].stage = "fetch" => emails[p] = 0

\* C5, amended: an exception of any stage is caught, reported as exactly
\* one st.error message, plus one st.info tip when the message contains
\* "onnx" or "protobuf", and ends this run only: the script run ends
\* normally and the next one can start. After a failed fetch nothing has
\* been emitted.
C5_OneErrorAndTip ==
  \A p \in Procs :
    /\ runErr[p] # NoRunErr =>
         /\ errors[p] = 1
         /\ infos[p] =
              IF \/ Contains(<<"o","n","n","x">>, lower(runErr[p].msg))
                 \/ Contains(<<"p","r","o","t","o","b","u","f">>,
                             lower(runErr[p].msg))
              THEN 1 ELSE 0
         /\ pc[p] = "done"
         /\ left[p] > 0 => ENABLED StartRun(p)
         /\ runErr[p].stage = "fetch" => (emails[p] = 0 /\ stages[p] = <<>>)
    /\ runErr[p] = NoRunErr => (errors[p] = 0 /\ infos[p] = 0)

\* the second job's draft raised an ONNX error: one email, one error, one tip
C5_Witness ==
  \E p \in Procs :
    /\ runErr[p].stage = "draft"
    /\ emails[p] = 1
    /\ errors[p] = 1
    /\ infos[p] = 1

\* C6: for a non-empty list of skills, query_links returns at most 2
\* results per skill and never raises.
C6_QueryNeverRaises ==
  \A p \in Procs :
    /\ runErr[p].stage = "query" => jobs[p][jobIdx[p]] = <<>>
    /\ pc[p] = "draft" =>
         \A i \in 1..Len(links[p]) : Len(links[p][i]) <= 2

\* C7: a load_portfolio that finds the collection empty and returns leaves
\* exactly one entry per row of the CSV, each under its own identifier.
C7_SeedInsertsEachRowOnce ==
  \A p \in Procs :
    (seedObs[p] = "empty" /\ Seeded(p)) =>
      LET coll == store[StoreOf(p)] IN
      /\ Cardinality(coll) = nrows
      /\ \A r \in 1..nrows : Cardinality({x \in coll : x.row = r}) = 1
      /\ \A x, y \in coll : x.id = y.id => x = y

\* an empty collection was seeded from a CSV of 2 rows
C7_Witness ==
  \E p \in Procs :
    /\ nrows = 2
    /\ seedObs[p] = "empty"
    /\ Seeded(p)
    /\ Count(StoreOf(p)) = 2

\* the stages of a submission with k jobs, in order
StageOrder(k) ==
  [i \in 1..(4 + 3 * k) |->
     IF i <= 4
     THEN << <<"fetch", "clean", "seed", "extract">>[i], 0 >>
     ELSE << <<"query", "draft", "emit">>[((i - 5) % 3) + 1],
             ((i - 5) \div 3) + 1 >>]

IsPrefix(s, t) == Len(s) <= Len(t) /\ SubSeq(t, 1, Len(s)) = s

\* C8: the stages of a submission complete in the order fetch, clean, seed,
\* extract, then query, draft, emit of job 1, of job 2, ...; there are no
\* more iterations than jobs.
C8_StageOrder ==
  \A p \in Procs :
    /\ IsPrefix(stages[p], StageOrder(MaxJobs))
    /\ Len(stages[p]) >= 4 => Len(stages[p]) <= 4 + 3 * Len(jobs[p])

\* a submission with two jobs has run to its end
C8_Witness ==
  \E p \in Procs :
    /\ Len(jobs[p]) = 2
    /\ pc[p] = "done"
    /\ stages[p] = StageOrder(2)
    /\ emails[p] = 2

\* C9: nothing but the count() == 0 check guards the seeding: when two
\* processes on the persistent collection have both found it empty and both
\* finished their inserts, it holds every row twice.
C9_RaceSeedsTwice ==
  \A p, q \in Procs :
    ( /\ p # q
      /\ collection[p] = "disk" /\ collection[q] = "disk"
      /\ seedObs[p] = "empty" /\ seedObs[q] = "empty"
      /\ Seeded(p) /\ Seeded(q) )
    => /\ Count(Disk) = 2 * nrows
       /\ \A r \in 1..nrows :
            Cardinality({x \in store[Disk] : x.row = r}) = 2

\* both processes found the persistent collection empty and both inserted
\* every row
C9_Witness ==
  /\ nrows > 0
  /\ \A p \in Procs :
       collection[p] = "disk" /\ seedObs[p] = "empty" /\ Seeded(p)
  /\ Count(Disk) = 2 * nrows

\* a seeding of collection s has stopped part of the way
PartlySeeded(s) ==
  /\ 0 < Count(s)
  /\ Count(s) < nrows
  /\ \A p \in Procs : ~(pc[p] = "seed_add" /\ StoreOf(p) = s)

\* C10: seeding is not atomic. The rows inserted before an insert raised
\* stay in the collection, and no later load_portfolio adds the others: a
\* partly seeded collection never changes again.
C10_PartialSeedIsFinal ==
  [][\A s \in Stores :
       /\ store[s] \subseteq store'[s]
       /\ PartlySeeded(s) => (store'[s] = store[s] /\ PartlySeeded(s)')
    ]_vars

\* a later load_portfolio has returned on a partly seeded collection
C10_Witness ==
  \E p \in Procs :
    /\ PartlySeeded(StoreOf(p))
    /\ seedObs[p] = "nonempty"
    /\ Seeded(p)

====
